---- MODULE Spec2Model ----
(***************************************************************************)
(* Model of vmagro/virtual_filesystem:                                     *)
(*   - src/src/file/mod.rs : File (an ordered map offset -> Extent) with   *)
(*     len, is_empty, to_bytes and clone(range);                           *)
(*   - src/src/btrfs.rs    : Sendstreams::filesystem, the interpreter that *)
(*     folds the command batches of send-streams into one Filesystem.      *)
(* Two specifications:                                                     *)
(*   Spec     - the interpreter, one step per command of a batch;          *)
(*   SpecFile - File::clone followed by writing the pieces into an empty   *)
(*              File, over bounded Files and ranges.                       *)
(***************************************************************************)
EXTENDS Integers, Sequences, FiniteSets, TLC

VARIABLES
    \* ---- Sendstreams::filesystem (btrfs.rs:29-82) ----
    fs,        \* local `fs`: map path -> Entry (Filesystem.entries)
    pc,        \* position of the call: "stream" | "interp" | "returned" | "panicked"
    subvol,    \* the first command of the batch being interpreted
    command,   \* loop variable `command`: the command taken last
    ncmds,     \* commands cmd_iter has yielded in this batch after the first
    pre,       \* value of `fs` when the batch being interpreted began
    done,      \* identifiers of the batches whose loop ran to its end
    nstreams,  \* number of sendstreams the outer loop has taken
    panic,     \* message of the panic that stopped the call, "" if none
    \* ---- File::clone and the writer (file/mod.rs) ----
    fileA,     \* the source File
    range,     \* the requested range <<start, end>>
    pieces,    \* the Vec<Extent> returned by clone
    fileB,     \* the File the pieces are written into
    wpos,      \* the writer's position in fileB
    wi,        \* number of pieces handed to the writer so far
    bytepos,   \* `pos`: the byte offset handed to extent_for_byte
    hit,       \* what extent_for_byte returned: <<>> for None, <<[start, ext]>> for Some
    fpc,       \* "init" | "cloned" | "writing" | "written" | "panicked" | "looked" | "idle"
    \* ---- the on-disk directory of the end-to-end comparison ----
    dir        \* map relative path -> what the directory walk reports for it

vars == <<fs, pc, subvol, command, ncmds, pre, done, nstreams, panic,
          fileA, range, pieces, fileB, wpos, wi, bytepos, hit, fpc, dir>>

ivars == <<fs, pc, subvol, command, ncmds, pre, done, nstreams, panic>>
fvars == <<fileA, range, pieces, fileB, wpos, wi, bytepos, hit, fpc, dir>>

----------------------------------------------------------------------------
(* Bounds *)

MaxExtents == 3     \* extents of a source File
MaxExtLen  == 2     \* bytes of one extent
MaxStreams == 2     \* sendstreams of one call
MaxCmds    == 2     \* commands of one sendstream after its first

Bytes == {"a", "b"}

----------------------------------------------------------------------------
(* Generic helpers *)

Max(a, b) == IF a >= b THEN a ELSE b
Min(a, b) == IF a <= b THEN a ELSE b

EmptyMap == [k \in {} |-> 0]

\* BTreeMap::insert: insert or overwrite
MapInsert(m, k, v) == [x \in (DOMAIN m) \cup {k} |-> IF x = k THEN v ELSE m[x]]

\* BTreeMap::remove
MapRemove(m, k) == [x \in (DOMAIN m) \ {k} |-> m[x]]

\* The keys of a BTreeMap<usize, _> in iteration (ascending) order
RECURSIVE SortedKeys(_)
SortedKeys(S) ==
    IF S = {} THEN <<>>
    ELSE LET lo == CHOOSE k \in S : \A j \in S : k <= j
         IN  <<lo>> \o SortedKeys(S \ {lo})

----------------------------------------------------------------------------
(* File (file/mod.rs) *)

DefaultFileMode == 292      \* 0o444

\* Extent::Owned built from raw bytes
Owned(bytes) == [kind |-> "Owned", data |-> bytes]

ExtentLen(e)  == Len(e.data)
ExtentData(e) == e.data

\* impl Default for File
FileDefault ==
    [kind    |-> "File",
     extents |-> EmptyMap,
     mode    |-> DefaultFileMode,
     uid     |-> 0,
     gid     |-> 0,
     xattrs  |-> EmptyMap]

\* File::new_empty: the builder with every field defaulted
FileNewEmpty == FileDefault

\* A File with the given extent map and default metadata (tests::test_file)
FileOf(extents) == [FileDefault EXCEPT !.extents = extents]

\* File::is_empty
FileIsEmpty(f) == DOMAIN f.extents = {}

\* File::len: last_key_value().map(|(start, ext)| start + ext.len()).unwrap_or(0)
FileLen(f) ==
    IF DOMAIN f.extents = {} THEN 0
    ELSE LET last == CHOOSE k \in DOMAIN f.extents : \A j \in DOMAIN f.extents : j <= k
         IN  last + ExtentLen(f.extents[last])

\* FileBuilder::contents(bytes).build(): one extent at offset 0, whatever its length
FileBuilderContents(bytes) == FileOf(MapInsert(EmptyMap, 0, Owned(bytes)))

\* File::extent_for_byte (and extent_for_byte_mut):
\* range(..pos + 1).next_back(), kept if pos <= start + e.len()
ExtentForByte(f, p) ==
    LET below == {k \in DOMAIN f.extents : k < p + 1}
    IN  IF below = {} THEN <<>>
        ELSE LET start == CHOOSE k \in below : \A j \in below : j <= k
             IN  IF p <= start + ExtentLen(f.extents[start])
                 THEN <<[start |-> start, ext |-> f.extents[start]]>>
                 ELSE <<>>

\* BTreeMap::range panics when the range's start is greater than its end
RangePanics(start, end) == start > end

\* The keys that self.extents.range(start..end) yields, ascending
RangeKeys(f, start, end) ==
    SortedKeys({k \in DOMAIN f.extents : start <= k /\ k < end})

\* One iteration of the loop of File::clone
ClonePiece(f, start, end, ext_start) ==
    LET ext == f.extents[ext_start]
        s   == Max(start, ext_start)
        e   == Min(end, ext_start + ExtentLen(ext))
    IN  [kind      |-> "Cloned",
         src_range |-> <<s, e>>,
         data      |-> SubSeq(ExtentData(ext), s - ext_start + 1, e - ext_start)]

\* File::clone(range)
FileClone(f, start, end) ==
    LET ks == RangeKeys(f, start, end)
    IN  [i \in 1..Len(ks) |-> ClonePiece(f, start, end, ks[i])]

\* FileWriter::write: the extent goes in at the writer's position
WriterWrite(f, pos, ext) == [f EXCEPT !.extents = MapInsert(f.extents, pos, ext)]

\* File::to_bytes: the extents' data read in ascending offset order
RECURSIVE ConcatData(_, _)
ConcatData(f, ks) ==
    IF ks = <<>> THEN <<>>
    ELSE ExtentData(f.extents[Head(ks)]) \o ConcatData(f, Tail(ks))

FileToBytes(f) == ConcatData(f, SortedKeys(DOMAIN f.extents))

----------------------------------------------------------------------------
(* Source Files for SpecFile: extents contiguous from offset 0 *)

Chunks == UNION {[1..n -> Bytes] : n \in 1..MaxExtLen}

RECURSIVE FromChunks(_, _, _)
FromChunks(cs, pos, m) ==
    IF cs = <<>> THEN m
    ELSE FromChunks(Tail(cs), pos + Len(Head(cs)), MapInsert(m, pos, Owned(Head(cs))))

SourceFiles ==
    {FileOf(FromChunks(cs, 0, EmptyMap)) :
        cs \in UNION {[1..n -> Chunks] : n \in 0..MaxExtents}}

\* Files made by the builder with contents(..), zero-length contents included
BuiltFiles == {FileBuilderContents(b) : b \in {<<>>} \cup Chunks}

----------------------------------------------------------------------------
(* Paths and entries (Filesystem.entries: BTreeMap<path, Entry>) *)

\* A path is the sequence of its components; "/" as first component marks
\* an absolute path.
IsAbsolute(p) == Len(p) > 0 /\ p[1] = "/"

\* Path::join: an absolute right-hand side replaces the left-hand side
PathJoin(base, p) == IF IsAbsolute(p) THEN p ELSE base \o p

\* macro subvol_path!(subvol, path)
SubvolPath(sv, p) == PathJoin(sv.path, p)

DefaultDirMode == 365       \* 0o555

\* Directory::default()
DirectoryDefault ==
    [kind   |-> "Dir",
     mode   |-> DefaultDirMode,
     uid    |-> 0,
     gid    |-> 0,
     xattrs |-> EmptyMap]

\* Mode::from_bits_truncate: the bits outside 0o7777 are dropped
ModeFromBitsTruncate(bits) == bits % 4096

\* Entry::chown
EntryChown(e, uid, gid) == [e EXCEPT !.uid = uid, !.gid = gid]

\* Entry::chmod
EntryChmod(e, mode) == [e EXCEPT !.mode = mode]

IsPrefix(p, k) == Len(p) <= Len(k) /\ SubSeq(k, 1, Len(p)) = p

\* The entries of tree f at and under path p, keyed relative to p
SubTree(f, p) ==
    LET rel == {SubSeq(k, Len(p) + 1, Len(k)) : k \in {j \in DOMAIN f : IsPrefix(p, j)}}
    IN  [r \in rel |-> f[p \o r]]

----------------------------------------------------------------------------
(* Commands of a sendstream (sendstream_parser::Command) *)

NoCommand == [type |-> "None"]

Ids      == {"U1", "U2"}
CmdPaths == {<<>>, <<"x">>, <<"y">>, <<"x", "y">>}
ChmodBits == {448}          \* 0o700
Owners   == {1000}

SubvolCmd(u)      == [type |-> "Subvol",   path |-> <<u>>, uuid |-> u]
SnapshotCmd(u, p) == [type |-> "Snapshot", path |-> <<u>>, uuid |-> u, clone_uuid |-> p]
ChownCmd(p, u, g) == [type |-> "Chown",  path |-> p, uid |-> u, gid |-> g]
ChmodCmd(p, m)    == [type |-> "Chmod",  path |-> p, mode |-> m]
MkdirCmd(p)       == [type |-> "Mkdir",  path |-> p]
MkfileCmd(p)      == [type |-> "Mkfile", path |-> p]
RenameCmd(a, b)   == [type |-> "Rename", from |-> a, to |-> b]
CloneCmd(s, d)    == [type |-> "Clone", src_path |-> s, src_range |-> <<0, 1>>,
                      dst_path |-> d, dst_offset |-> 0]
OtherCmd          == [type |-> "Utimes"]
WriteCmd(p, o, d) == [type |-> "Write", path |-> p, offset |-> o, data |-> d]

----------------------------------------------------------------------------
(* An on-disk directory and the two ways to a Filesystem from it *)

\* No directory: the interpreter is fed arbitrary sendstreams
NoDir == EmptyMap

DirRecord(mode, owner) ==
    [is_dir |-> TRUE, mode |-> mode, uid |-> owner, gid |-> owner, xattrs |-> EmptyMap]
FileRecord(mode, owner, contents) ==
    [is_dir |-> FALSE, mode |-> mode, uid |-> owner, gid |-> owner, xattrs |-> EmptyMap,
     contents |-> contents]

\* st_mode values: 0o40755, 0o40700, 0o100644
DirModes  == {16877, 16832}
FileModes == {33188}
DirOwners == {0, 1000}

\* The directories D: a root, optionally x (a directory or a file), and
\* optionally the file x/y when x is a directory
Dirs ==
    LET roots  == {[p \in {<<>>} |-> DirRecord(16877, o)] : o \in DirOwners}
        files  == {FileRecord(m, o, c) : m \in FileModes, o \in DirOwners, c \in {<<>>, <<"a">>}}
        xdirs  == {DirRecord(m, o) : m \in DirModes, o \in DirOwners}
    IN  roots
        \cup {MapInsert(r, <<"x">>, f) : r \in roots, f \in files}
        \cup {MapInsert(r, <<"x">>, d) : r \in roots, d \in xdirs}
        \cup {MapInsert(MapInsert(r, <<"x">>, d), <<"x", "y">>, f) :
                 r \in roots, d \in xdirs, f \in files}

\* Directory::builder().mode(..).uid(..).gid(..).xattrs(..).build()
DirectoryOf(mode, uid, gid, xattrs) ==
    [kind |-> "Dir", mode |-> mode, uid |-> uid, gid |-> gid, xattrs |-> xattrs]

\* The entry Filesystem::from_dir inserts for one walked path, dir.rs:38-63
ImportedEntry(r) ==
    IF r.is_dir
    THEN DirectoryOf(ModeFromBitsTruncate(r.mode), r.uid, r.gid, r.xattrs)
    ELSE [FileBuilderContents(r.contents) EXCEPT
              !.mode = ModeFromBitsTruncate(r.mode),
              !.uid = r.uid, !.gid = r.gid, !.xattrs = r.xattrs]

\* Filesystem::from_dir, dir.rs:19-66: one entry per walked path, keyed by
\* the path relative to the top directory
FromDir(d) == [p \in DOMAIN d |-> ImportedEntry(d[p])]

\* The name an entry is created under before it is renamed to its path
TmpName == <<"o">>

\* The commands of the send-stream for the entry at path p of directory d
CmdsFor(d, p) ==
    IF p \notin DOMAIN d THEN <<>>
    ELSE LET r == d[p]
             create == IF p = <<>> THEN <<>>
                       ELSE IF r.is_dir
                       THEN <<MkdirCmd(TmpName), RenameCmd(TmpName, p)>>
                       ELSE <<MkfileCmd(TmpName), RenameCmd(TmpName, p)>>
             write  == IF ~r.is_dir /\ r.contents # <<>>
                       THEN <<WriteCmd(p, 0, r.contents)>> ELSE <<>>
         IN  create \o write \o <<ChownCmd(p, r.uid, r.gid), ChmodCmd(p, r.mode)>>

\* The commands, after Subvol, of the send-stream that builds directory d
StreamFor(d) == CmdsFor(d, <<>>) \o CmdsFor(d, <<"x">>) \o CmdsFor(d, <<"x", "y">>)

\* How many commands cmd_iter can yield after the first
CmdLimit == IF dir = NoDir THEN MaxCmds ELSE Len(StreamFor(dir))

----------------------------------------------------------------------------
(* Sendstreams::filesystem (btrfs.rs:29-82) *)

Init ==
    /\ fs = EmptyMap                 \* let mut fs = Filesystem::new();
    /\ pc = "stream"
    /\ subvol = NoCommand
    /\ command = NoCommand
    /\ ncmds = 0
    /\ pre = EmptyMap
    /\ done = {}
    /\ nstreams = 0
    /\ panic = ""
    /\ fileA = FileNewEmpty
    /\ range = <<0, 0>>
    /\ pieces = <<>>
    /\ fileB = FileNewEmpty
    /\ wpos = 0
    /\ wi = 0
    /\ bytepos = 0
    /\ hit = <<>>
    /\ fpc = "idle"
    /\ dir = NoDir

\* The call stops in a panic; `fs` keeps the value it had at that point.
Panics(msg) ==
    /\ pc' = "panicked"
    /\ panic' = msg
    /\ UNCHANGED <<fs, subvol, pre, done, nstreams>>

\* The outer loop takes the next sendstream; its first command is Subvol.
\* btrfs.rs:31-38
BeginSubvol(u) ==
    /\ pc = "stream"
    /\ nstreams < MaxStreams
    /\ nstreams' = nstreams + 1
    /\ subvol' = SubvolCmd(u)
    /\ command' = SubvolCmd(u)
    /\ ncmds' = 0
    /\ pre' = fs
    /\ fs' = MapInsert(fs, SubvolCmd(u).path, DirectoryDefault)
    /\ pc' = "interp"
    /\ UNCHANGED <<done, panic>>

\* The next sendstream's first command is not Subvol. btrfs.rs:35
BeginNotSubvol(c) ==
    /\ pc = "stream"
    /\ nstreams < MaxStreams
    /\ nstreams' = nstreams + 1
    /\ command' = c
    /\ ncmds' = 0
    /\ pre' = fs
    /\ pc' = "panicked"
    /\ panic' = "first command is always the subvolume"
    /\ UNCHANGED <<fs, subvol, done>>

\* The next sendstream has no command. btrfs.rs:33
BeginEmpty ==
    /\ pc = "stream"
    /\ nstreams < MaxStreams
    /\ nstreams' = nstreams + 1
    /\ command' = NoCommand
    /\ ncmds' = 0
    /\ pre' = fs
    /\ pc' = "panicked"
    /\ panic' = "must have at least one command"
    /\ UNCHANGED <<fs, subvol, done>>

\* cmd_iter yields c
Takes(c) ==
    /\ pc = "interp"
    /\ ncmds < CmdLimit
    /\ ncmds' = ncmds + 1
    /\ command' = c

\* Command::Chown arm, btrfs.rs:42-47
DoChown(p, u, g) ==
    /\ Takes(ChownCmd(p, u, g))
    /\ LET key == SubvolPath(subvol, p)
       IN  IF key \in DOMAIN fs
           THEN /\ fs' = [fs EXCEPT ![key] = EntryChown(fs[key], u, g)]
                /\ UNCHANGED <<pc, subvol, pre, done, nstreams, panic>>
           ELSE Panics("must exist")

\* DoChmod gone wrong: the mode is set on the target and on everything under it
DoChmod_Recursive(p, bits) ==
    /\ Takes([type |-> "Chmod", path |-> p, mode |-> bits])
    /\ LET key == subvol.path \o p
       IN  IF key \in DOMAIN fs
           THEN /\ fs' = [k \in DOMAIN fs |->
                            IF Len(key) <= Len(k) /\ SubSeq(k, 1, Len(key)) = key
                            THEN [fs[k] EXCEPT !.mode = bits % 4096]
                            ELSE fs[k]]
                /\ UNCHANGED <<pc, subvol, pre, done, nstreams, panic>>
           ELSE Panics("must exist")

\* Command::Chmod arm, btrfs.rs:48-54
DoChmod(p, bits) ==
    /\ Takes(ChmodCmd(p, bits))
    /\ LET key == SubvolPath(subvol, p)
       IN  IF key \in DOMAIN fs
           THEN /\ fs' = [fs EXCEPT ![key] = EntryChmod(fs[key], ModeFromBitsTruncate(bits))]
                /\ UNCHANGED <<pc, subvol, pre, done, nstreams, panic>>
           ELSE Panics("must exist")

\* Command::Mkdir arm, btrfs.rs:55-60
DoMkdir(p) ==
    /\ Takes(MkdirCmd(p))
    /\ fs' = MapInsert(fs, SubvolPath(subvol, p), DirectoryDefault)
    /\ UNCHANGED <<pc, subvol, pre, done, nstreams, panic>>

\* DoMkfile gone wrong: an entry already at the path is kept (entry().or_insert)
DoMkfile_KeepExisting(p) ==
    /\ Takes([type |-> "Mkfile", path |-> p])
    /\ fs' = IF subvol.path \o p \in DOMAIN fs THEN fs
             ELSE MapInsert(fs, subvol.path \o p, FileDefault)
    /\ UNCHANGED <<pc, subvol, pre, done, nstreams, panic>>

\* Command::Mkfile arm, btrfs.rs:61-66
DoMkfile(p) ==
    /\ Takes(MkfileCmd(p))
    /\ fs' = MapInsert(fs, SubvolPath(subvol, p), FileDefault)
    /\ UNCHANGED <<pc, subvol, pre, done, nstreams, panic>>

\* DoRename gone wrong: the entry is copied to `to` and stays at `from`
DoRename_Copy(a, b) ==
    /\ Takes([type |-> "Rename", from |-> a, to |-> b])
    /\ IF subvol.path \o a \in DOMAIN fs
       THEN /\ fs' = MapInsert(fs, subvol.path \o b, fs[subvol.path \o a])
            /\ UNCHANGED <<pc, subvol, pre, done, nstreams, panic>>
       ELSE Panics("rename from must exist")

\* Command::Rename arm, btrfs.rs:67-73
DoRename(a, b) ==
    /\ Takes(RenameCmd(a, b))
    /\ LET from == SubvolPath(subvol, a)
           to   == SubvolPath(subvol, b)
       IN  IF from \in DOMAIN fs
           THEN /\ fs' = MapInsert(MapRemove(fs, from), to, fs[from])
                /\ UNCHANGED <<pc, subvol, pre, done, nstreams, panic>>
           ELSE Panics("rename from must exist")

\* DoIgnored gone wrong: a command without an arm stops the call
DoIgnored_Fatal(c) ==
    /\ Takes(c)
    /\ Panics("unsupported command")

\* The catch-all arm `_ => {}`, btrfs.rs:77: every other command, Clone included
DoIgnored(c) ==
    /\ Takes(c)
    /\ UNCHANGED <<fs, pc, subvol, pre, done, nstreams, panic>>

\* cmd_iter is exhausted: the inner loop ends, btrfs.rs:39,79
EndStream ==
    /\ pc = "interp"
    /\ pc' = "stream"
    /\ done' = done \cup {subvol.uuid}
    /\ UNCHANGED <<fs, subvol, command, ncmds, pre, nstreams, panic>>

\* The sendstreams are exhausted: Ok(fs), btrfs.rs:81
Return ==
    /\ pc = "stream"
    /\ pc' = "returned"
    /\ UNCHANGED <<fs, subvol, command, ncmds, pre, done, nstreams, panic>>

FirstOthers == {MkdirCmd(<<"x">>), ChmodCmd(<<>>, 448), OtherCmd}
ClonePaths  == {<<"x">>, <<"y">>}

Next ==
    \/ \E u \in Ids : (BeginSubvol(u) /\ UNCHANGED fvars)
    \/ \E u \in Ids : \E p \in Ids \ {u} :
          (BeginNotSubvol(SnapshotCmd(u, p)) /\ UNCHANGED fvars)
    \/ \E c \in FirstOthers : (BeginNotSubvol(c) /\ UNCHANGED fvars)
    \/ (BeginEmpty /\ UNCHANGED fvars)
    \/ \E p \in CmdPaths, o \in Owners : (DoChown(p, o, o) /\ UNCHANGED fvars)
    \/ \E p \in CmdPaths, m \in ChmodBits : (DoChmod(p, m) /\ UNCHANGED fvars)
    \/ \E p \in CmdPaths : (DoMkdir(p) /\ UNCHANGED fvars)
    \/ \E p \in CmdPaths : (DoMkfile(p) /\ UNCHANGED fvars)
    \/ \E a \in CmdPaths, b \in CmdPaths : (DoRename(a, b) /\ UNCHANGED fvars)
    \/ \E s \in ClonePaths, d \in ClonePaths : (DoIgnored(CloneCmd(s, d)) /\ UNCHANGED fvars)
    \/ (DoIgnored(OtherCmd) /\ UNCHANGED fvars)
    \/ \E p \in ClonePaths : (DoIgnored(WriteCmd(p, 0, <<"a">>)) /\ UNCHANGED fvars)
    \/ (EndStream /\ UNCHANGED fvars)
    \/ (Return /\ UNCHANGED fvars)

Spec == Init /\ [][Next]_vars

----------------------------------------------------------------------------
(* SpecE2E: the interpreter fed the one send-stream that builds `dir`      *)

InitE2E ==
    /\ fs = EmptyMap
    /\ pc = "stream"
    /\ subvol = NoCommand
    /\ command = NoCommand
    /\ ncmds = 0
    /\ pre = EmptyMap
    /\ done = {}
    /\ nstreams = 0
    /\ panic = ""
    /\ fileA = FileNewEmpty
    /\ range = <<0, 0>>
    /\ pieces = <<>>
    /\ fileB = FileNewEmpty
    /\ wpos = 0
    /\ wi = 0
    /\ bytepos = 0
    /\ hit = <<>>
    /\ fpc = "idle"
    /\ dir \in Dirs

\* The one sendstream starts with Subvol
E2EBegin == nstreams = 0 /\ BeginSubvol("U1")

\* The next command of the stream goes to its arm
E2EChown  == \E c \in {StreamFor(dir)[i] : i \in {ncmds + 1} \cap DOMAIN StreamFor(dir)} :
                 c.type = "Chown" /\ DoChown(c.path, c.uid, c.gid)
E2EChmod  == \E c \in {StreamFor(dir)[i] : i \in {ncmds + 1} \cap DOMAIN StreamFor(dir)} :
                 c.type = "Chmod" /\ DoChmod(c.path, c.mode)
E2EMkdir  == \E c \in {StreamFor(dir)[i] : i \in {ncmds + 1} \cap DOMAIN StreamFor(dir)} :
                 c.type = "Mkdir" /\ DoMkdir(c.path)
E2EMkfile == \E c \in {StreamFor(dir)[i] : i \in {ncmds + 1} \cap DOMAIN StreamFor(dir)} :
                 c.type = "Mkfile" /\ DoMkfile(c.path)
E2ERename == \E c \in {StreamFor(dir)[i] : i \in {ncmds + 1} \cap DOMAIN StreamFor(dir)} :
                 c.type = "Rename" /\ DoRename(c.from, c.to)
E2EOther  == \E c \in {StreamFor(dir)[i] : i \in {ncmds + 1} \cap DOMAIN StreamFor(dir)} :
                 c.type \notin {"Chown", "Chmod", "Mkdir", "Mkfile", "Rename"} /\ DoIgnored(c)

\* The stream has no further command
E2EEnd == ncmds = Len(StreamFor(dir)) /\ EndStream

\* There is no further sendstream
E2EReturn == nstreams = 1 /\ Return

NextE2E ==
    \/ (E2EBegin /\ UNCHANGED fvars)
    \/ (E2EChown /\ UNCHANGED fvars)
    \/ (E2EChmod /\ UNCHANGED fvars)
    \/ (E2EMkdir /\ UNCHANGED fvars)
    \/ (E2EMkfile /\ UNCHANGED fvars)
    \/ (E2ERename /\ UNCHANGED fvars)
    \/ (E2EOther /\ UNCHANGED fvars)
    \/ (E2EEnd /\ UNCHANGED fvars)
    \/ (E2EReturn /\ UNCHANGED fvars)

SpecE2E == InitE2E /\ [][NextE2E]_vars

----------------------------------------------------------------------------
(* SpecFile: clone a range of fileA, write the pieces into an empty fileB *)

IdleInterp ==
    /\ fs = EmptyMap
    /\ pc = "idle"
    /\ subvol = NoCommand
    /\ command = NoCommand
    /\ ncmds = 0
    /\ pre = EmptyMap
    /\ done = {}
    /\ nstreams = 0
    /\ panic = ""

InitFile ==
    /\ IdleInterp
    /\ fileA \in SourceFiles \cup BuiltFiles
    /\ range \in (0..(FileLen(fileA) + 1)) \X (0..(FileLen(fileA) + 1))
    /\ bytepos \in 0..(FileLen(fileA) + 1)
    /\ hit = <<>>
    /\ pieces = <<>>
    /\ fileB = FileNewEmpty
    /\ wpos = 0
    /\ wi = 0
    /\ fpc = "init"
    /\ dir = NoDir

\* let extents = f.clone(start..end);
DoClone ==
    /\ fpc = "init"
    /\ IF RangePanics(range[1], range[2])
       THEN pieces' = pieces /\ fpc' = "panicked"
       ELSE pieces' = FileClone(fileA, range[1], range[2]) /\ fpc' = "cloned"
    /\ UNCHANGED <<fileA, range, fileB, wpos, wi, bytepos, hit>>
    /\ UNCHANGED <<ivars, dir>>

\* for ex in extents { w.write(ex) }, one extent per step
DoWrite ==
    /\ fpc \in {"cloned", "writing"}
    /\ wi < Len(pieces)
    /\ fileB' = WriterWrite(fileB, wpos, pieces[wi + 1])
    /\ wpos' = wpos + ExtentLen(pieces[wi + 1])
    /\ wi' = wi + 1
    /\ fpc' = "writing"
    /\ UNCHANGED <<fileA, range, pieces, bytepos, hit>>
    /\ UNCHANGED <<ivars, dir>>

\* the loop over the extents has ended
DoFinish ==
    /\ fpc \in {"cloned", "writing"}
    /\ wi = Len(pieces)
    /\ fpc' = "written"
    /\ UNCHANGED <<fileA, range, pieces, fileB, wpos, wi, bytepos, hit>>
    /\ UNCHANGED <<ivars, dir>>

\* self.extent_for_byte(pos)
DoLookup ==
    /\ fpc = "init"
    /\ hit' = ExtentForByte(fileA, bytepos)
    /\ fpc' = "looked"
    /\ UNCHANGED <<fileA, range, pieces, fileB, wpos, wi, bytepos>>
    /\ UNCHANGED <<ivars, dir>>

NextFile == DoClone \/ DoWrite \/ DoFinish \/ DoLookup

SpecFile == InitFile /\ [][NextFile]_vars

----------------------------------------------------------------------------
(* What the caller of Sendstreams::filesystem gets.  The function's only   *)
(* return is Ok(fs) (btrfs.rs:81); every failure in it is a panic.         *)

Outcome ==
    IF pc = "returned" THEN [kind |-> "Ok"]
    ELSE IF pc = "panicked" THEN [kind |-> "Panic", msg |-> panic]
    ELSE [kind |-> "Running"]

\* The call returned Err(e)
ReturnedErr(e) == Outcome = [kind |-> "Err", error |-> e]

\* `command` is the first command of the sendstream taken last
AtFirstCommand == nstreams > 0 /\ ncmds = 0 /\ pc \in {"interp", "panicked"}

\* The tree recorded for identifier u: the entries under the subvolume's path
TreeOf(f, u) == SubTree(f, <<u>>)

\* A tree holding only the default root Directory
RootOnly == [r \in {<<>>} |-> DirectoryDefault]

----------------------------------------------------------------------------
(* Claims about File::clone (SpecFile) *)

\* clone has returned and `pieces` is what it returned
Cloned == fpc \in {"cloned", "writing", "written"}

\* 0 <= start <= end <= File length
RangeWithin == range[1] <= range[2] /\ range[2] <= FileLen(fileA)

\* The byte offsets covered by the pieces' source ranges
Covered(ps) == UNION {ps[i].src_range[1] .. (ps[i].src_range[2] - 1) : i \in DOMAIN ps}

\* C1: for a File contiguous from 0 and 0 <= start <= end <= len, the ranges of
\* the pieces returned by clone(start..end) have union exactly [start, end),
\* also when start lies strictly inside an extent.
C1_CloneCoversRange ==
    (Cloned /\ RangeWithin) => Covered(pieces) = range[1] .. (range[2] - 1)

\* C2: writing the pieces of A.clone(start..end), in order, into an empty File B
\* gives B.to_bytes() = A.to_bytes()[start..end).
C2_CloneWriteRoundTrip ==
    (fpc = "written" /\ RangeWithin) =>
        FileToBytes(fileB) = SubSeq(FileToBytes(fileA), range[1] + 1, range[2])

----------------------------------------------------------------------------
(* Claims about Sendstreams::filesystem (Spec) *)

\* C3: a Snapshot batch U2 whose parent U1 was received before is interpreted
\* from a copy of U1's tree, and U1's recorded tree stays what it was.
C3_SnapshotLineage ==
    (AtFirstCommand /\ command.type = "Snapshot" /\ command.clone_uuid \in done) =>
        /\ pc = "interp"
        /\ TreeOf(fs, command.uuid) = TreeOf(pre, command.clone_uuid)
        /\ TreeOf(fs, command.clone_uuid) = TreeOf(pre, command.clone_uuid)

\* C4: a Snapshot batch whose parent was never recorded fails with the error
\* MissingParent(parent) and leaves the recorded state as it was.
C4_MissingParent ==
    (AtFirstCommand /\ command.type = "Snapshot" /\ command.clone_uuid \notin done) =>
        /\ ReturnedErr(<<"MissingParent", command.clone_uuid>>)
        /\ fs = pre

\* C5: a batch whose first command is Subvol or Snapshot is accepted and the
\* interpreter goes on to its commands; any other first command fails with the
\* error value InvariantViolated (no abort) and records nothing.
C5_BatchStart ==
    (AtFirstCommand /\ command.type # "None") =>
        IF command.type \in {"Subvol", "Snapshot"}
        THEN pc = "interp"
        ELSE ReturnedErr(<<"InvariantViolated">>) /\ fs = pre

\* The path a command needs present, if it is absent from tree f
MissingTarget(c, f) ==
    IF c.type \in {"Chmod", "Chown"}
    THEN IF SubvolPath(subvol, c.path) \notin DOMAIN f THEN {c.path} ELSE {}
    ELSE IF c.type = "Rename"
    THEN IF SubvolPath(subvol, c.from) \notin DOMAIN f THEN {c.from} ELSE {}
    ELSE {}

\* C6: Chmod or Chown of an absent path, and Rename from an absent path, fail
\* with the error value MissingEntry(path) returned to the caller (no abort,
\* no silent skip).
C6_MissingEntryIsError ==
    [][(pc = "interp" /\ ncmds' = ncmds + 1) =>
          \A p \in MissingTarget(command', fs) : ReturnedErr(<<"MissingEntry", p>>)']_vars

\* C7: when a batch fails at one of its commands, the recorded state is the
\* state recorded before the batch began.
C7_NoPartialCommit ==
    (pc = "panicked" \/ Outcome.kind = "Err") => fs = pre

\* C8: once a batch has finished, no later step removes its subvolume or
\* changes anything in its recorded tree.
C8_RecordedImmutable ==
    [][\A u \in done : <<>> \in DOMAIN TreeOf(fs', u) /\ TreeOf(fs', u) = TreeOf(fs, u)]_vars

\* C9: a Subvol batch starts from a tree holding only a default root
\* Directory, whatever was received before, also under the same identifier.
C9_SubvolStartsEmpty ==
    (AtFirstCommand /\ pc = "interp" /\ command.type = "Subvol") =>
        TreeOf(fs, subvol.uuid) = RootOnly

IsFileAt(f, k) == k \in DOMAIN f /\ f[k].kind = "File"

\* C10: Clone(src, [s, e), dst, off) with both paths Files makes dst's bytes at
\* [off, off + e - s) the bytes src had at [s, e); with either path absent or
\* not a File it fails with MissingEntry.
C10_CloneCommand ==
    [][(pc = "interp" /\ ncmds' = ncmds + 1 /\ command'.type = "Clone") =>
          LET c   == command'
              src == SubvolPath(subvol, c.src_path)
              dst == SubvolPath(subvol, c.dst_path)
              n   == c.src_range[2] - c.src_range[1]
          IN  IF IsFileAt(fs, src) /\ IsFileAt(fs, dst)
              THEN c.src_range[2] <= FileLen(fs[src]) =>
                     /\ IsFileAt(fs', dst)
                     /\ c.dst_offset + n <= FileLen(fs'[dst])
                     /\ SubSeq(FileToBytes(fs'[dst]), c.dst_offset + 1, c.dst_offset + n)
                          = SubSeq(FileToBytes(fs[src]), c.src_range[1] + 1, c.src_range[2])
              ELSE \E p \in {c.src_path, c.dst_path} : ReturnedErr(<<"MissingEntry", p>>)']_vars

----------------------------------------------------------------------------
(* Claims about single commands of the interpreter (Spec) *)

\* The step takes a command of one of the given types from the batch
StepOf(types) == pc = "interp" /\ ncmds' = ncmds + 1 /\ command'.type \in types

\* Every path but those in `touched` holds in fs' what it held in fs
FrameExcept(touched) ==
    \A k \in (DOMAIN fs \cup DOMAIN fs') \ touched :
        k \in DOMAIN fs /\ k \in DOMAIN fs' /\ fs'[k] = fs[k]

\* What Rename(from, to) with `from` present must do, as the claim states it
RenameEffect(c) ==
    LET from == SubvolPath(subvol, c.from)
        to   == SubvolPath(subvol, c.to)
    IN  from \in DOMAIN fs =>
            /\ pc' = "interp"
            /\ from \notin DOMAIN fs'
            /\ to \in DOMAIN fs'
            /\ fs'[to] = fs[from]
            /\ FrameExcept({from, to})

\* C11 (as claimed): whenever `from` is present, Rename(from, to) leaves no
\* entry at `from`, puts the entry that was at `from` at `to`, and changes no
\* other path.
C11_RenameMovesAlways ==
    [][StepOf({"Rename"}) => RenameEffect(command')]_vars

\* C11 (amended): the same for `to` different from `from`; Rename(from, from)
\* leaves the whole tree, the entry at `from` included, as it was.
C11_RenameMoves ==
    [][StepOf({"Rename"}) =>
          IF command'.from # command'.to
          THEN RenameEffect(command')
          ELSE SubvolPath(subvol, command'.from) \in DOMAIN fs =>
                   (pc' = "interp" /\ fs' = fs)]_vars

C11_Witness ==
    /\ pc = "interp"
    /\ ncmds >= 2
    /\ command.type = "Rename"
    /\ command.from # command.to
    /\ SubvolPath(subvol, command.from) \notin DOMAIN fs
    /\ SubvolPath(subvol, command.to) \in DOMAIN fs
    /\ fs[SubvolPath(subvol, command.to)].kind = "File"
    /\ {k \in DOMAIN TreeOf(fs, subvol.uuid) : TreeOf(fs, subvol.uuid)[k].kind = "File"}
           = {command.to}

ArmedTypes == {"Mkdir", "Mkfile", "Chmod", "Chown", "Rename", "Clone"}

\* C12: a command outside {Mkdir, Mkfile, Chmod, Chown, Rename, Clone} leaves
\* the tree as it was and does not fail; the interpreter stays in its loop.
C12_UnrecognizedIsNoop ==
    [][(pc = "interp" /\ ncmds' = ncmds + 1 /\ command'.type \notin ArmedTypes) =>
          (fs' = fs /\ pc' = "interp" /\ panic' = panic)]_vars

C12_Witness ==
    /\ pc = "interp"
    /\ ncmds >= 1
    /\ command.type = "Utimes"
    /\ DOMAIN TreeOf(fs, subvol.uuid) # {<<>>}

\* The fields of entry e2 other than those in `changed` are those of e1
SameBut(e1, e2, changed) ==
    /\ DOMAIN e2 = DOMAIN e1
    /\ \A fld \in DOMAIN e1 \ changed : e2[fld] = e1[fld]

\* C13: Chmod of an existing entry changes that entry's mode only, Chown its
\* uid and gid only; every other entry, those under a target Directory
\* included, is unchanged.
C13_MetadataFrame ==
    [][StepOf({"Chmod", "Chown"}) =>
          LET c   == command'
              key == SubvolPath(subvol, c.path)
          IN  key \in DOMAIN fs =>
                  /\ pc' = "interp"
                  /\ key \in DOMAIN fs'
                  /\ FrameExcept({key})
                  /\ IF c.type = "Chmod"
                     THEN /\ SameBut(fs[key], fs'[key], {"mode"})
                          /\ fs'[key].mode = ModeFromBitsTruncate(c.mode)
                     ELSE /\ SameBut(fs[key], fs'[key], {"uid", "gid"})
                          /\ fs'[key].uid = c.uid
                          /\ fs'[key].gid = c.gid]_vars

C13_Witness ==
    /\ pc = "interp"
    /\ ncmds >= 1
    /\ command.type = "Chmod"
    /\ LET key == SubvolPath(subvol, command.path)
       IN  /\ key \in DOMAIN fs
           /\ fs[key].kind = "Dir"
           /\ fs[key].mode = ModeFromBitsTruncate(command.mode)
           /\ \E k \in DOMAIN fs :
                 k # key /\ IsPrefix(key, k) /\ fs[k].mode # fs[key].mode

Parent(k) == SubSeq(k, 1, Len(k) - 1)

\* C14: after the first command of a batch and after every later command the
\* subvolume's root Directory exists and every other entry's parent path is
\* present as a Directory.
C14_ParentsExist ==
    pc = "interp" =>
        LET t == TreeOf(fs, subvol.uuid)
        IN  /\ <<>> \in DOMAIN t
            /\ t[<<>>].kind = "Dir"
            /\ \A k \in DOMAIN t \ {<<>>} :
                  Parent(k) \in DOMAIN t /\ t[Parent(k)].kind = "Dir"

\* C18: Mkdir(path) and Mkfile(path) never fail; afterwards the entry at path
\* is an empty Directory, resp. a File without content, with default
\* metadata, whatever was there, and every other path is unchanged.
C18_MkOverwrites ==
    [][StepOf({"Mkdir", "Mkfile"}) =>
          LET c   == command'
              key == SubvolPath(subvol, c.path)
          IN  /\ pc' = "interp"
              /\ panic' = panic
              /\ key \in DOMAIN fs'
              /\ FrameExcept({key})
              /\ fs'[key].uid = 0 /\ fs'[key].gid = 0
              /\ fs'[key].xattrs = EmptyMap
              /\ IF c.type = "Mkdir"
                 THEN fs'[key].kind = "Dir" /\ fs'[key].mode = DefaultDirMode
                 ELSE /\ fs'[key].kind = "File"
                      /\ fs'[key].mode = DefaultFileMode
                      /\ DOMAIN fs'[key].extents = {}]_vars

\* A Mkfile that replaced the root Directory made by the first command
C18_Witness ==
    /\ pc = "interp"
    /\ ncmds = 1
    /\ command = MkfileCmd(<<>>)
    /\ fs[subvol.path].kind = "File"

----------------------------------------------------------------------------
(* Claims about File::clone, is_empty and extent_for_byte (SpecFile) *)

\* The extent at offset k shares at least one byte with [start, end)
Overlaps(f, k, start, end) ==
    Max(start, k) < Min(end, k + ExtentLen(f.extents[k]))

\* Piece p is the extent at offset k clipped to [start, end)
ClippedFrom(f, p, k, start, end) ==
    LET s == Max(start, k)
        e == Min(end, k + ExtentLen(f.extents[k]))
    IN  /\ Overlaps(f, k, start, end)
        /\ p.src_range = <<s, e>>
        /\ p.data = SubSeq(ExtentData(f.extents[k]), s - k + 1, e - k)

\* C16: every piece clone returns is one extent that overlaps the request,
\* clipped to it: range [max(start, e), min(end, e + len)), non-empty, with that
\* extent's bytes; the pieces are in strictly ascending order and disjoint.
C16_CloneClipsInOrder ==
    Cloned =>
        /\ \A i \in DOMAIN pieces :
              \E k \in DOMAIN fileA.extents :
                  ClippedFrom(fileA, pieces[i], k, range[1], range[2])
        /\ \A i \in DOMAIN pieces : \A j \in DOMAIN pieces :
              i < j => /\ pieces[i].src_range[1] < pieces[j].src_range[1]
                       /\ pieces[i].src_range[2] <= pieces[j].src_range[1]

\* C17: for a range that overlaps none of the File's extents (past the end,
\* empty, or any range on a File without extents) clone returns an empty
\* sequence and does not fail.
C17_CloneOutsideIsEmpty ==
    (fpc \in {"cloned", "writing", "written", "panicked"}
        /\ \A k \in DOMAIN fileA.extents : ~Overlaps(fileA, k, range[1], range[2])) =>
            (fpc # "panicked" /\ pieces = <<>>)

\* C19: for every File made by the public constructors is_empty() is true
\* exactly when len() = 0.
C19_EmptyIffLenZero ==
    fpc \notin {"idle", "init"} => (FileIsEmpty(fileA) <=> FileLen(fileA) = 0)

\* The offsets of the extents that contain byte p
Containing(f, p) ==
    {k \in DOMAIN f.extents : k <= p /\ p < k + ExtentLen(f.extents[k])}

\* C20: extent_for_byte(pos) returns (s, e) only if s <= pos < s + len(e),
\* returns the containing extent when there is one, and None when there is
\* none (so for pos equal to the File's length).
C20_ExtentForByteContains ==
    fpc = "looked" =>
        IF Containing(fileA, bytepos) = {}
        THEN hit = <<>>
        ELSE /\ Len(hit) = 1
             /\ hit[1].start \in Containing(fileA, bytepos)
             /\ hit[1].ext = fileA.extents[hit[1].start]

----------------------------------------------------------------------------
(* Claim about the two ways to a Filesystem (SpecE2E) *)

\* C15: the tree the interpreter builds from the send-stream of a directory
\* D of directories and regular files equals the tree of importing D: the
\* same paths, kinds, mode, uid, gid, xattrs, content and extents.  The
\* interpreter's tree is taken relative to the subvolume's path.
C15_StreamEqualsImport ==
    (pc = "returned" /\ dir # NoDir) => TreeOf(fs, subvol.uuid) = FromDir(dir)

====
